---- MODULE Spec2Model ----
(***************************************************************************)
(* A model of difftrace's change-impact pipeline (src/difftrace/diff.py):  *)
(*   get_changed_files -> relativize_to_workspace -> map_files_to_packages *)
(*                                                                         *)
(* A Python str is a sequence of one-character strings; a list is a        *)
(* sequence; a set is a set.  A pathlib.Path is a sequence of components   *)
(* (each a str) below the filesystem root.                                 *)
(***************************************************************************)
EXTENDS Naturals, Integers, Sequences, FiniteSets

VARIABLES
    pc,               \* the stage about to run: "diff", "relativize", "map", "done", "failed"
    base_ref,         \* get_changed_files: the base reference
    completed,        \* what `git diff --name-only base...HEAD` answers: returncode, stdout, stderr
    runs,             \* number of times the diff command has been invoked
    raised,           \* the exception get_changed_files raised: [type, message], type None if none
    changed_files,    \* git-root-relative changed paths (result of get_changed_files)
    git_root,         \* relativize_to_workspace: the repository root
    workspace_root,   \* relativize_to_workspace: the workspace root
    relative_files,   \* workspace-relative changed paths (result of relativize_to_workspace)
    packages,         \* packages.values(): sequence of [name, source_path], in dict order
    root_triggers,    \* optional argument: Omitted, or Given(a set of str)
    dir_triggers,     \* optional argument: Omitted, or Given(a set of str)
    directly_changed, \* map_files_to_packages: first component of the result
    test_all          \* map_files_to_packages: second component of the result

vars == <<pc, base_ref, completed, runs, raised, changed_files, git_root,
          workspace_root, relative_files, packages, root_triggers,
          dir_triggers, directly_changed, test_all>>

None == "None"

\* an optional argument: omitted (Python's None), or given with a value
Omitted == [given |-> FALSE, value |-> {}]
Given(v) == [given |-> TRUE, value |-> v]

\* no exception raised
NoException == [type |-> None, message |-> <<>>]
\* no subprocess result (the stage did not run)
NoRun == [returncode |-> 0, stdout |-> <<>>, stderr |-> <<>>]

(***************************************************************************)
(* Bounds of the model.                                                    *)
(***************************************************************************)
\* longest standard output of the diff command drawn character by character
MaxOut == 4
\* longest changed path drawn character by character for relativize_to_workspace
MaxPathLen == 3
\* longest list of changed files drawn from the path sets
MaxFiles == 2

(***************************************************************************)
(* Python str operations.                                                  *)
(***************************************************************************)
\* all sequences over S of length at most n
SeqsUpTo(S, n) == UNION {[1..k -> S] : k \in 0..n}

\* s.startswith(p)
StartsWith(s, p) == Len(p) <= Len(s) /\ SubSeq(s, 1, Len(p)) = p

\* needle in s
Contains(s, needle) ==
    \E i \in 0..(Len(s) - Len(needle)) : SubSeq(s, i + 1, i + Len(needle)) = needle

\* the characters str.strip() removes: space, \t, \n, \r, \f, then the
\* controls VT (0x0B), FS, GS, RS, US (0x1C-0x1F), NEL (0x85), NBSP (0xA0) and
\* U+1680, written as the characters themselves.  The remaining Unicode
\* spaces (U+2000-200A, U+2028, U+2029, U+202F, U+205F, U+3000) cannot be
\* written in a TLA+ string and no input of the model holds them.
Whitespace ==
    {" ", "\t", "\n", "\r", "\f"}
    \cup {"", "", "", "", ""}
    \cup {"", " ", " "}

RECURSIVE lstrip(_)
lstrip(s) == IF s # <<>> /\ Head(s) \in Whitespace THEN lstrip(Tail(s)) ELSE s

RECURSIVE rstrip(_)
rstrip(s) ==
    IF s # <<>> /\ s[Len(s)] \in Whitespace THEN rstrip(SubSeq(s, 1, Len(s) - 1)) ELSE s

\* s.strip()
strip(s) == rstrip(lstrip(s))

\* the line boundaries of str.splitlines(): \n, \r, \f, then VT (0x0B), FS, GS,
\* RS (0x1C-0x1E) and NEL (0x85), written as the characters themselves.  The
\* boundaries U+2028 and U+2029 cannot be written in a TLA+ string and no
\* input of the model holds them.
LineBreaks ==
    {"\n", "\r", "\f"}
    \cup {"", "", "", ""}
    \cup {""}

\* lines of SubSeq(s, i, Len(s)), `cur` being the line read so far
RECURSIVE SplitFrom(_, _, _)
SplitFrom(s, i, cur) ==
    IF i > Len(s) THEN (IF cur = <<>> THEN <<>> ELSE <<cur>>)
    ELSE IF s[i] = "\r" /\ i < Len(s) /\ s[i + 1] = "\n"
         THEN <<cur>> \o SplitFrom(s, i + 2, <<>>)
    ELSE IF s[i] \in LineBreaks THEN <<cur>> \o SplitFrom(s, i + 1, <<>>)
    ELSE SplitFrom(s, i + 1, Append(cur, s[i]))

\* s.splitlines()
splitlines(s) == SplitFrom(s, 1, <<>>)

\* sep.join(parts)
RECURSIVE Join(_, _)
Join(parts, sep) ==
    IF parts = <<>> THEN <<>>
    ELSE IF Len(parts) = 1 THEN parts[1]
    ELSE parts[1] \o sep \o Join(Tail(parts), sep)

\* the set of elements of a sequence
Range(s) == {s[i] : i \in DOMAIN s}

(***************************************************************************)
(* get_changed_files                                                       *)
(***************************************************************************)
UnknownRevision ==
    <<"u", "n", "k", "n", "o", "w", "n", " ", "r", "e", "v", "i", "s", "i", "o", "n">>
NotAGitRepository ==
    <<"n", "o", "t", " ", "a", " ", "g", "i", "t", " ", "r", "e", "p", "o", "s", "i", "t", "o", "r", "y">>

\* f"Could not resolve ref '{base_ref}'. Does the branch/ref exist? Try 'git fetch' ..."
CouldNotResolve(ref) ==
    <<"C", "o", "u", "l", "d", " ", "n", "o", "t", " ", "r", "e", "s", "o", "l", "v", "e", " ", "r", "e", "f", " ", "'">>
    \o ref \o <<"'", ".", " ">>
    \o <<"D", "o", "e", "s", " ", "t", "h", "e", " ", "b", "r", "a", "n", "c", "h", "/", "r", "e", "f", " ", "e", "x", "i", "s", "t", "?", " ">>
    \o <<"T", "r", "y", " ", "'", "g", "i", "t", " ", "f", "e", "t", "c", "h", "'", " ", "o", "r", " ", "u", "s", "e", " ", "-", "-", "b", "a", "s", "e", " ", "w", "i", "t", "h", " ", "a", " ", "v", "a", "l", "i", "d", " ", "r", "e", "f", ".">>

\* f"git diff failed: {stderr}"
GitDiffFailed(stderr) ==
    <<"g", "i", "t", " ", "d", "i", "f", "f", " ", "f", "a", "i", "l", "e", "d", ":", " ">> \o stderr

\* the `"unknown revision" in stderr or "not a git repository" in stderr` test (faulty variant: drops the second needle)
IsUnresolvableOnlyRevision(stderr) == Contains(stderr, UnknownRevision)

\* the `"unknown revision" in stderr or "not a git repository" in stderr` test
IsUnresolvable(stderr) ==
    Contains(stderr, UnknownRevision) \/ Contains(stderr, NotAGitRepository)

\* [f for f in result.stdout.strip().splitlines() if f]
ParseNames(stdout) == SelectSeq(splitlines(strip(stdout)), LAMBDA f : f # <<>>)

\* get_changed_files(base_ref), `result` being what subprocess.run returned:
\* either a returned list or a raised exception
get_changed_files(ref, result) ==
    IF result.returncode # 0
    THEN LET stderr == strip(result.stderr) IN
         IF IsUnresolvable(stderr)
         THEN [kind |-> "raise", type |-> "ValueError",
               message |-> CouldNotResolve(ref), files |-> <<>>]
         ELSE [kind |-> "raise", type |-> "RuntimeError",
               message |-> GitDiffFailed(stderr), files |-> <<>>]
    ELSE [kind |-> "return", type |-> None, message |-> <<>>,
          files |-> ParseNames(result.stdout)]

\* one call of get_changed_files: a single subprocess.run, then return or raise
GetChangedFiles ==
    /\ pc = "diff"
    /\ LET r == get_changed_files(base_ref, completed) IN
        /\ runs' = runs + 1
        /\ raised' = IF r.kind = "raise"
                     THEN [type |-> r.type, message |-> r.message] ELSE NoException
        /\ changed_files' = r.files
        /\ pc' = IF r.kind = "raise" THEN "failed" ELSE "relativize"
    /\ UNCHANGED <<base_ref, completed, git_root, workspace_root, relative_files,
                   packages, root_triggers, dir_triggers, directly_changed, test_all>>

(***************************************************************************)
(* Inputs of get_changed_files.                                            *)
(***************************************************************************)
OutChars == {"a", " ", "\n"}
Stdouts == SeqsUpTo(OutChars, MaxOut)

ReturnCodes == {0, 1, 128, -15}

StderrHeads == {<<>>, <<"f", "a", "t", "a", "l", ":", " ">>, <<"\n", " ">>}
StderrBodies ==
    { UnknownRevision, NotAGitRepository,
      <<"U", "n", "k", "n", "o", "w", "n", " ", "R", "e", "v", "i", "s", "i", "o", "n">>,
      <<"u", "n", "k", "n", "o", "w", "n", " ">>,
      <<"b", "a", "d", " ", "o", "b", "j", "e", "c", "t">>,
      <<>> }
StderrTails == {<<>>, <<"\n">>, <<" ", "o", "r", " ", "p", "a", "t", "h", "\n">>}
Stderrs == {h \o b \o t : h \in StderrHeads, b \in StderrBodies, t \in StderrTails}

BaseRefs == {<<"m", "a", "i", "n">>, <<"v", "1">>}

InitDiff ==
    /\ pc = "diff"
    /\ base_ref \in BaseRefs
    /\ completed \in [returncode : ReturnCodes, stdout : Stdouts, stderr : Stderrs]
    /\ runs = 0
    /\ raised = NoException
    /\ changed_files = <<>>
    /\ git_root = <<>>
    /\ workspace_root = <<>>
    /\ relative_files = <<>>
    /\ packages = <<>>
    /\ root_triggers = Omitted
    /\ dir_triggers = Omitted
    /\ directly_changed = {}
    /\ test_all = FALSE

NextDiff == GetChangedFiles

SpecDiff == InitDiff /\ [][NextDiff]_vars

(***************************************************************************)
(* relativize_to_workspace                                                 *)
(***************************************************************************)
\* Path.resolve() on an absolute path of a filesystem without symbolic links:
\* every ".." removes the component before it (none at the filesystem root)
RECURSIVE ResolveFrom(_, _)
ResolveFrom(parts, done) ==
    IF parts = <<>> THEN done
    ELSE IF Head(parts) = <<".", ".">>
         THEN ResolveFrom(Tail(parts),
                          IF done = <<>> THEN <<>> ELSE SubSeq(done, 1, Len(done) - 1))
    ELSE IF Head(parts) = <<".">> THEN ResolveFrom(Tail(parts), done)
    ELSE ResolveFrom(Tail(parts), Append(done, Head(parts)))

resolve(path) == ResolveFrom(path, <<>>)

\* whether path.relative_to(other) succeeds (it raises ValueError otherwise)
IsRelativeTo(path, other) ==
    Len(other) <= Len(path) /\ SubSeq(path, 1, Len(other)) = other

\* str(path.relative_to(other))
relative_to(path, other) ==
    IF Len(path) = Len(other) THEN <<".">>
    ELSE Join(SubSeq(path, Len(other) + 1, Len(path)), <<"/">>)

\* prefix + "/"
prefix_with_slash(prefix) == prefix \o <<"/">>

\* the loop body for one file (faulty variant: tests and strips the prefix without the "/")
RelativizeFileNoSlash(f, prefix) ==
    IF StartsWith(f, prefix) /\ f # prefix
    THEN <<SubSeq(f, Len(prefix) + 1, Len(f))>>
    ELSE IF f = prefix THEN << <<".">> >>
    ELSE <<>>

\* the loop body for one file (faulty variant: the workspace root itself is dropped)
RelativizeFileDropsExact(f, prefix) ==
    IF StartsWith(f, prefix_with_slash(prefix))
    THEN <<SubSeq(f, Len(prefix_with_slash(prefix)) + 1, Len(f))>>
    ELSE <<>>

\* the loop body for one file (faulty variant: a file outside the workspace is kept as it is)
RelativizeFileKeepOutside(f, prefix) ==
    IF StartsWith(f, prefix_with_slash(prefix))
    THEN <<SubSeq(f, Len(prefix_with_slash(prefix)) + 1, Len(f))>>
    ELSE IF f = prefix THEN << <<".">> >>
    ELSE <<f>>

\* the loop body for one file: what it appends to `result`
RelativizeFile(f, prefix) ==
    IF StartsWith(f, prefix_with_slash(prefix))
    THEN <<SubSeq(f, Len(prefix_with_slash(prefix)) + 1, Len(f))>>
    ELSE IF f = prefix THEN << <<".">> >>
    ELSE <<>>

\* for f in changed_files: ...
RECURSIVE RelativizeLoop(_, _)
RelativizeLoop(files, prefix) ==
    IF files = <<>> THEN <<>>
    ELSE RelativizeFile(Head(files), prefix) \o RelativizeLoop(Tail(files), prefix)

relativize_to_workspace(files, groot, wroot) ==
    LET w == resolve(wroot)
        g == resolve(groot)
    IN  IF w = g THEN files
        ELSE IF ~IsRelativeTo(w, g) THEN <<>>
        ELSE RelativizeLoop(files, relative_to(w, g))

RelativizeToWorkspace ==
    /\ pc = "relativize"
    /\ relative_files' = relativize_to_workspace(changed_files, git_root, workspace_root)
    /\ pc' = "map"
    /\ UNCHANGED <<base_ref, completed, runs, raised, changed_files, git_root,
                   workspace_root, packages, root_triggers, dir_triggers,
                   directly_changed, test_all>>

(***************************************************************************)
(* Inputs of relativize_to_workspace.                                      *)
(***************************************************************************)
PathChars == {"w", "/"}
ExtraPaths ==
    { <<"w", "/", "a">>, <<"a", "/", "w">>, <<"w", "a">>, <<"w", "/", "w", "/", "a">>,
      <<"w", "/", "a", "/", "w", "/", "b">>, <<"w", "/", "w", "/", "w", "/", "a">> }
RepoPaths == SeqsUpTo(PathChars, MaxPathLen) \cup ExtraPaths

R == <<"r">>
W == <<"w">>
X == <<"x">>
DotDot == <<".", ".">>
\* <<git_root, workspace_root>>
RootPairs ==
    { << <<R>>, <<R>> >>,                      \* the workspace is the repository
      << <<R>>, <<R, W>> >>,                   \* prefix "w"
      << <<R>>, <<R, W, W>> >>,                \* prefix "w/w"
      << <<R, X, DotDot>>, <<R, X, DotDot, W>> >>, \* prefix "w" once resolved
      << <<R>>, <<R, W, DotDot>> >>,           \* equal once resolved
      << <<R>>, <<X>> >>,                      \* the workspace is outside the repository
      << <<R, W>>, <<R>> >> }                  \* the workspace is above the repository

InitRelativize ==
    /\ pc = "relativize"
    /\ base_ref = <<>>
    /\ completed = NoRun
    /\ runs = 0
    /\ raised = NoException
    /\ changed_files \in SeqsUpTo(RepoPaths, MaxFiles)
    /\ \E roots \in RootPairs : git_root = roots[1] /\ workspace_root = roots[2]
    /\ relative_files = <<>>
    /\ packages = <<>>
    /\ root_triggers = Omitted
    /\ dir_triggers = Omitted
    /\ directly_changed = {}
    /\ test_all = FALSE

NextRelativize == RelativizeToWorkspace

SpecRelativize == InitRelativize /\ [][NextRelativize]_vars

(***************************************************************************)
(* map_files_to_packages                                                   *)
(***************************************************************************)
DEFAULT_ROOT_TRIGGERS ==
    { <<"p", "y", "p", "r", "o", "j", "e", "c", "t", ".", "t", "o", "m", "l">>,
      <<"u", "v", ".", "l", "o", "c", "k">> }
DEFAULT_DIR_TRIGGERS == { <<".", "g", "i", "t", "h", "u", "b", "/">> }

\* `if triggers is None: triggers = default` (faulty variant: `if not triggers`)
TriggersOrDefaultFalsy(triggers, default) ==
    IF ~triggers.given \/ triggers.value = {} THEN default ELSE triggers.value

\* `if triggers is None: triggers = default`, for either trigger argument
TriggersOrDefault(triggers, default) ==
    IF ~triggers.given THEN default ELSE triggers.value

\* where a stable sort, descending by len(source_path), puts pkg among `sorted`
RECURSIVE InsertByLength(_, _)
InsertByLength(sorted, pkg) ==
    IF sorted = <<>> THEN <<pkg>>
    ELSE IF Len(Head(sorted).source_path) >= Len(pkg.source_path)
         THEN <<Head(sorted)>> \o InsertByLength(Tail(sorted), pkg)
    ELSE <<pkg>> \o sorted

\* sorted(packages.values(), ...) (faulty variant: the dict order is kept)
sorted_packages_unsorted(pkgs) == pkgs

\* sorted(packages.values(), key=lambda p: len(p.source_path), reverse=True)
RECURSIVE sorted_packages(_)
sorted_packages(pkgs) ==
    IF pkgs = <<>> THEN <<>>
    ELSE InsertByLength(sorted_packages(SubSeq(pkgs, 1, Len(pkgs) - 1)), pkgs[Len(pkgs)])

\* `for pkg in sorted_packages` (faulty variant: the virtual root is not skipped)
RECURSIVE MatchPackageNoSkip(_, _)
MatchPackageNoSkip(filepath, sorted) ==
    IF sorted = <<>> THEN {}
    ELSE IF StartsWith(filepath, Head(sorted).source_path \o <<"/">>)
         THEN {Head(sorted).name}
    ELSE MatchPackageNoSkip(filepath, Tail(sorted))

\* `for pkg in sorted_packages: ...`: the names the inner loop adds for one file
RECURSIVE MatchPackage(_, _)
MatchPackage(filepath, sorted) ==
    IF sorted = <<>> THEN {}
    ELSE IF Head(sorted).source_path = <<".">> THEN MatchPackage(filepath, Tail(sorted))
    ELSE IF StartsWith(filepath, Head(sorted).source_path \o <<"/">>)
         THEN {Head(sorted).name}
    ELSE MatchPackage(filepath, Tail(sorted))

\* the outer loop's body (faulty variant: a trigger file falls through to the package match)
MapFileNoContinue(filepath, sorted, rt, dt, acc) ==
    [directly_changed |-> acc.directly_changed \cup MatchPackage(filepath, sorted),
     test_all |-> acc.test_all \/ filepath \in rt
                  \/ \E trigger \in dt : StartsWith(filepath, trigger)]

\* the outer loop's body for one file: acc is <directly_changed, test_all> before it
MapFile(filepath, sorted, rt, dt, acc) ==
    IF filepath \in rt THEN [acc EXCEPT !.test_all = TRUE]
    ELSE IF \E trigger \in dt : StartsWith(filepath, trigger)
         THEN [acc EXCEPT !.test_all = TRUE]
    ELSE [acc EXCEPT !.directly_changed = @ \cup MatchPackage(filepath, sorted)]

\* `for filepath in changed_files` (faulty variant: the loop ends at the first trigger)
RECURSIVE MapLoopBreak(_, _, _, _, _)
MapLoopBreak(files, sorted, rt, dt, acc) ==
    IF files = <<>> \/ acc.test_all THEN acc
    ELSE MapLoopBreak(Tail(files), sorted, rt, dt, MapFile(Head(files), sorted, rt, dt, acc))

\* `for filepath in changed_files: ...`
RECURSIVE MapLoop(_, _, _, _, _)
MapLoop(files, sorted, rt, dt, acc) ==
    IF files = <<>> THEN acc
    ELSE MapLoop(Tail(files), sorted, rt, dt, MapFile(Head(files), sorted, rt, dt, acc))

map_files_to_packages(files, pkgs, rt, dt) ==
    MapLoop(files, sorted_packages(pkgs),
            TriggersOrDefault(rt, DEFAULT_ROOT_TRIGGERS),
            TriggersOrDefault(dt, DEFAULT_DIR_TRIGGERS),
            [directly_changed |-> {}, test_all |-> FALSE])

MapFilesToPackages ==
    /\ pc = "map"
    /\ LET r == map_files_to_packages(relative_files, packages, root_triggers, dir_triggers) IN
        /\ directly_changed' = r.directly_changed
        /\ test_all' = r.test_all
    /\ pc' = "done"
    /\ UNCHANGED <<base_ref, completed, runs, raised, changed_files, git_root,
                   workspace_root, relative_files, packages, root_triggers, dir_triggers>>

(***************************************************************************)
(* Inputs of map_files_to_packages.                                        *)
(***************************************************************************)
PyprojectToml == <<"p", "y", "p", "r", "o", "j", "e", "c", "t", ".", "t", "o", "m", "l">>
UvLock == <<"u", "v", ".", "l", "o", "c", "k">>
GithubCi == <<".", "g", "i", "t", "h", "u", "b", "/", "c", "i", ".", "y", "m", "l">>
PkgASubF == <<"p", "k", "g", "/", "a", "/", "s", "u", "b", "/", "f", ".", "p", "y">>
PkgAX == <<"p", "k", "g", "/", "a", "/", "x", ".", "p", "y">>
PkgAbX == <<"p", "k", "g", "/", "a", "b", "/", "x", ".", "p", "y">>
DotSlashX == <<".", "/", "x", ".", "p", "y">>
CoreX == <<"p", "a", "c", "k", "a", "g", "e", "s", "/", "c", "o", "r", "e", "/", "s", "r", "c", "/", "x", ".", "p", "y">>
WebReadme == <<"p", "a", "c", "k", "a", "g", "e", "s", "/", "w", "e", "b", "/", "R", "E", "A", "D", "M", "E", ".", "m", "d">>

WorkspacePaths ==
    { PyprojectToml, UvLock, GithubCi, PkgASubF, PkgAX, PkgAbX, DotSlashX,
      <<"p", "k", "g", "/", "a">>, <<".">>, <<".", "g", "i", "t", "h", "u", "b">>,
      <<"d", "o", "c", "s", "/", "u", "v", ".", "l", "o", "c", "k">>,
      <<"R", "E", "A", "D", "M", "E", ".", "m", "d">> }

ScenarioFiles == <<PyprojectToml, CoreX, WebReadme>>

PkgA == [name |-> "a", source_path |-> <<"p", "k", "g", "/", "a">>]
PkgASub == [name |-> "a/sub", source_path |-> <<"p", "k", "g", "/", "a", "/", "s", "u", "b">>]
PkgRoot == [name |-> "root", source_path |-> <<".">>]
PkgTwin == [name |-> "twin", source_path |-> <<"p", "k", "g", "/", "a">>]
PkgGithub == [name |-> "gh", source_path |-> <<".", "g", "i", "t", "h", "u", "b">>]
PkgCore == [name |-> "core", source_path |-> <<"p", "a", "c", "k", "a", "g", "e", "s", "/", "c", "o", "r", "e">>]
PkgWeb == [name |-> "web", source_path |-> <<"p", "a", "c", "k", "a", "g", "e", "s", "/", "w", "e", "b">>]

\* every dict order of every subset of S
Orderings(S) ==
    {r \in SeqsUpTo(S, Cardinality(S)) : \A i, j \in DOMAIN r : i # j => r[i] # r[j]}

Registries ==
    Orderings({PkgA, PkgASub, PkgRoot})
    \cup { <<PkgGithub>>, <<PkgRoot, PkgGithub, PkgA>>, <<PkgA, PkgTwin>>,
           <<PkgTwin, PkgASub, PkgA>>, <<PkgCore, PkgWeb>>, <<PkgWeb, PkgCore, PkgRoot>> }

RootTriggerArgs == {Omitted, Given({}), Given({PkgAX})}
DirTriggerArgs ==
    {Omitted, Given({}), Given({ <<"p", "k", "g", "/", "a", "/", "s", "u", "b", "/">> })}

InitMap ==
    /\ pc = "map"
    /\ base_ref = <<>>
    /\ completed = NoRun
    /\ runs = 0
    /\ raised = NoException
    /\ changed_files = <<>>
    /\ git_root = <<>>
    /\ workspace_root = <<>>
    /\ relative_files \in SeqsUpTo(WorkspacePaths, MaxFiles) \cup {ScenarioFiles}
    /\ packages \in Registries
    /\ root_triggers \in RootTriggerArgs
    /\ dir_triggers \in DirTriggerArgs
    /\ directly_changed = {}
    /\ test_all = FALSE

NextMap == MapFilesToPackages

SpecMap == InitMap /\ [][NextMap]_vars

(***************************************************************************)
(* The pipeline: get_changed_files, then relativize_to_workspace, then     *)
(* map_files_to_packages, each stage's result being the next one's input.  *)
(***************************************************************************)
V == <<"v">>
\* what the diff command may list, relative to the repository root
DiffPaths ==
    { PyprojectToml, UvLock, GithubCi, W,
      <<"w", "/", "p", "y", "p", "r", "o", "j", "e", "c", "t", ".", "t", "o", "m", "l">>,
      <<"w", "/", "u", "v", ".", "l", "o", "c", "k">>,
      <<"w", "/", ".", "g", "i", "t", "h", "u", "b", "/", "c", "i", ".", "y", "m", "l">>,
      <<"w", "/", "p", "k", "g", "/", "a", "/", "x", ".", "p", "y">>,
      <<"w", "/", "v", "/", "p", "y", "p", "r", "o", "j", "e", "c", "t", ".", "t", "o", "m", "l">>,
      <<"w", "/", "v", "/", ".", "g", "i", "t", "h", "u", "b", "/", "c", "i", ".", "y", "m", "l">>,
      <<"w", "/", "d", "o", "c", "s", "/", "u", "v", ".", "l", "o", "c", "k">>,
      <<"w", "/", "v">> }

\* the standard output of `git diff --name-only` listing `files`: one path per line
NameOnlyOutput(files) ==
    IF files = <<>> THEN <<>> ELSE Join(files, <<"\n">>) \o <<"\n">>

PipelineRuns ==
    { [returncode |-> 0, stdout |-> NameOnlyOutput(files), stderr |-> <<>>] :
        files \in SeqsUpTo(DiffPaths, MaxFiles) }
    \cup { [returncode |-> 128, stdout |-> <<>>, stderr |-> e] :
             e \in { <<"f", "a", "t", "a", "l", ":", " ">> \o UnknownRevision \o <<"\n">>,
                     <<"f", "a", "t", "a", "l", ":", " ", "b", "a", "d", " ", "o", "b", "j", "e", "c", "t", "\n">> } }

PipelineRoots ==
    { << <<R>>, <<R>> >>, << <<R>>, <<R, W>> >>, << <<R>>, <<R, W, V>> >>, << <<R>>, <<X>> >> }

PipelineRegistries == { <<>>, <<PkgRoot, PkgA>>, <<PkgGithub>> }

Init ==
    /\ pc = "diff"
    /\ base_ref = <<"m", "a", "i", "n">>
    /\ completed \in PipelineRuns
    /\ runs = 0
    /\ raised = NoException
    /\ changed_files = <<>>
    /\ \E roots \in PipelineRoots : git_root = roots[1] /\ workspace_root = roots[2]
    /\ relative_files = <<>>
    /\ packages \in PipelineRegistries
    /\ root_triggers \in RootTriggerArgs
    /\ dir_triggers \in DirTriggerArgs
    /\ directly_changed = {}
    /\ test_all = FALSE

Next ==
    \/ GetChangedFiles
    \/ RelativizeToWorkspace
    \/ MapFilesToPackages

Spec == Init /\ [][Next]_vars

(***************************************************************************)
(* Vocabulary of the properties.                                           *)
(***************************************************************************)
\* the root and directory triggers in force for the call
RootTriggersInForce ==
    IF root_triggers.given THEN root_triggers.value ELSE {PyprojectToml, UvLock}
DirTriggersInForce ==
    IF dir_triggers.given THEN dir_triggers.value
    ELSE { <<".", "g", "i", "t", "h", "u", "b", "/">> }

\* f equals a root trigger or starts with a directory trigger
IsTriggerFile(f) ==
    f \in RootTriggersInForce \/ \E t \in DirTriggersInForce : StartsWith(f, t)

\* the packages, the virtual root apart, whose source_path + "/" is a prefix of f
Candidates(f) ==
    {pkg \in Range(packages) :
        pkg.source_path # <<".">> /\ StartsWith(f, pkg.source_path \o <<"/">>)}

\* the candidates with the longest source_path
Longest(f) ==
    {pkg \in Candidates(f) :
        \A q \in Candidates(f) : Len(q.source_path) <= Len(pkg.source_path)}

NamesOf(pkgs) == {pkg.name : pkg \in pkgs}

NonTriggerFiles == {f \in Range(relative_files) : ~IsTriggerFile(f)}

\* the workspace root lies strictly below the repository root
StrictDescendant ==
    /\ resolve(workspace_root) # resolve(git_root)
    /\ IsRelativeTo(resolve(workspace_root), resolve(git_root))

\* the workspace root relative to the repository root, components joined by "/"
WorkspacePrefix ==
    Join(SubSeq(resolve(workspace_root), Len(resolve(git_root)) + 1,
                Len(resolve(workspace_root))), <<"/">>)

Suffixes(f) == {SubSeq(f, k, Len(f)) : k \in 1..(Len(f) + 1)}

\* f == p + "/" + rest for some rest
IsUnder(f, p) == \E rest \in Suffixes(f) : f = p \o <<"/">> \o rest
RestOf(f, p) == CHOOSE rest \in Suffixes(f) : f = p \o <<"/">> \o rest

\* the files kept, in input order, each mapped to "." or to its rest
ExpectedRelative(files, p) ==
    LET kept == SelectSeq(files, LAMBDA f : IsUnder(f, p) \/ f = p)
    IN  [i \in 1..Len(kept) |-> IF kept[i] = p THEN <<".">> ELSE RestOf(kept[i], p)]

\* a path as git lists it: no empty component, no leading or trailing "/"
IsRepoRelative(f) ==
    /\ f # <<>>
    /\ f[1] # "/"
    /\ f[Len(f)] # "/"
    /\ ~Contains(f, <<"/", "/">>)

\* the diagnostic stream names an unresolvable reference
Diagnosed ==
    \/ Contains(completed.stderr, UnknownRevision)
    \/ Contains(completed.stderr, NotAGitRepository)

\* the message tells the caller to fetch the ref or to supply a valid one
Guides(message) ==
    /\ Contains(message, <<"g", "i", "t", " ", "f", "e", "t", "c", "h">>)
    /\ Contains(message, <<"v", "a", "l", "i", "d", " ", "r", "e", "f">>)

\* the lines of `out` that are not empty, split at "\n" only, nothing else removed
NonBlankLines(out) ==
    LET cut == {0} \cup {i \in 1..Len(out) : out[i] = "\n"} \cup {Len(out) + 1}
        stop(i) == CHOOSE j \in cut : j > i /\ \A k \in cut : k > i => j <= k
        RECURSIVE From(_)
        From(i) ==
            IF i > Len(out) THEN <<>>
            ELSE (IF stop(i) = i + 1 THEN <<>> ELSE <<SubSeq(out, i + 1, stop(i) - 1)>>)
                 \o From(stop(i))
    IN  From(0)

(***************************************************************************)
(* Properties of map_files_to_packages, under SpecMap.                     *)
(***************************************************************************)
\* C1: every changed file that matches no trigger puts into the direct set
\* exactly one package name, that of the candidate with the longest
\* source_path (so the nested package, never its ancestor), and nothing when
\* it has no candidate: the direct set holds one name of Longest(f) for each
\* such file f, and no name that is not in Longest(f) for some such f.
LongestPrefixPrecedence ==
    pc = "done" =>
        /\ \A f \in NonTriggerFiles :
             Candidates(f) # {} =>
                Cardinality(directly_changed \cap NamesOf(Longest(f))) = 1
        /\ \A n \in directly_changed :
             \E f \in NonTriggerFiles : n \in NamesOf(Longest(f))

\* C1's case: a file below the nested package, the ancestor first in the dict
NestedBeatsAncestor ==
    /\ pc = "done"
    /\ packages = <<PkgA, PkgASub>>
    /\ relative_files = <<PkgASubF>>
    /\ ~IsTriggerFile(PkgASubF)
    /\ directly_changed = {"a/sub"}

\* C2: a file that equals a root trigger or starts with a directory trigger
\* adds no package name, even if a package's source_path + "/" is a prefix of
\* it: every name of the direct set comes from a non-trigger file, and the
\* direct set is the one computed from the non-trigger files alone.
TriggerExclusivity ==
    pc = "done" =>
        /\ \A n \in directly_changed :
             \E f \in NonTriggerFiles : n \in NamesOf(Candidates(f))
        /\ directly_changed =
             map_files_to_packages(SelectSeq(relative_files, LAMBDA f : ~IsTriggerFile(f)),
                                   packages, root_triggers, dir_triggers).directly_changed

\* C2's case: a trigger file below a package, whose name stays out of the set
TriggerFileUnderPackage ==
    /\ pc = "done"
    /\ \E f \in Range(relative_files) :
         /\ IsTriggerFile(f)
         /\ Candidates(f) # {}
         /\ NamesOf(Candidates(f)) \cap directly_changed = {}

\* C3: test_all is true exactly when some file is a trigger file, and the
\* direct set holds the attribution of every non-trigger file, before or after
\* a trigger file; the three-file scenario gives ({core, web}, true).
TestAllDoesNotShortCircuit ==
    pc = "done" =>
        /\ test_all = (\E i \in DOMAIN relative_files : IsTriggerFile(relative_files[i]))
        /\ \A i \in DOMAIN relative_files :
             (~IsTriggerFile(relative_files[i]) /\ Candidates(relative_files[i]) # {})
                => directly_changed \cap NamesOf(Longest(relative_files[i])) # {}
        /\ ( /\ relative_files = ScenarioFiles
             /\ packages = <<PkgCore, PkgWeb>>
             /\ ~root_triggers.given
             /\ ~dir_triggers.given )
           => (directly_changed = {"core", "web"} /\ test_all)

\* C3's case: the scenario, a trigger file followed by two package files
ScenarioMapped ==
    /\ pc = "done"
    /\ relative_files = ScenarioFiles
    /\ packages = <<PkgCore, PkgWeb>>
    /\ ~root_triggers.given
    /\ ~dir_triggers.given
    /\ directly_changed = {"core", "web"}
    /\ test_all

\* C7: an omitted trigger argument stands for its default set, an explicit
\* empty set disables the category: test_all is decided by the sets in force
\* alone, and with an empty set a file matching a default trigger of that
\* category is put through package attribution.
TriggerDefaults ==
    pc = "done" =>
        /\ test_all =
             \E f \in Range(relative_files) :
                \/ f \in (IF root_triggers.given THEN root_triggers.value
                          ELSE {PyprojectToml, UvLock})
                \/ \E t \in (IF dir_triggers.given THEN dir_triggers.value
                             ELSE { <<".", "g", "i", "t", "h", "u", "b", "/">> }) :
                      StartsWith(f, t)
        /\ (root_triggers = Given({}) /\ dir_triggers = Given({})) => ~test_all
        /\ dir_triggers = Given({}) =>
             \A f \in Range(relative_files) :
                ( /\ StartsWith(f, <<".", "g", "i", "t", "h", "u", "b", "/">>)
                  /\ f \notin RootTriggersInForce
                  /\ Candidates(f) # {} )
                => directly_changed \cap NamesOf(Longest(f)) # {}
        /\ root_triggers = Given({}) =>
             \A f \in Range(relative_files) \cap {PyprojectToml, UvLock} :
                ((\E t \in DirTriggersInForce : StartsWith(f, t)) \/ Candidates(f) = {})
                \/ directly_changed \cap NamesOf(Longest(f)) # {}

\* C7's case: directory triggers disabled, a .github/ file goes to its package
GithubFileAttributed ==
    /\ pc = "done"
    /\ dir_triggers = Given({})
    /\ relative_files = <<GithubCi>>
    /\ packages = <<PkgGithub>>
    /\ directly_changed = {"gh"}
    /\ ~test_all

\* C8: no package whose source_path is "." is ever in the direct set, also for
\* the changed paths "." and "./...".
VirtualRootNeverAttributed ==
    pc = "done" =>
        \A i \in DOMAIN packages :
            packages[i].source_path = <<".">> => packages[i].name \notin directly_changed

\* C8's case: "." and a "./" path mapped against a registry with the root package
DotPathsMapped ==
    /\ pc = "done"
    /\ relative_files = << <<".">>, DotSlashX >>
    /\ PkgRoot \in Range(packages)
    /\ ~IsTriggerFile(DotSlashX)
    /\ "root" \notin directly_changed

(***************************************************************************)
(* Properties of relativize_to_workspace, under SpecRelativize.            *)
(***************************************************************************)
\* C4: with the workspace root strictly below the repository root, prefix p,
\* the result is the input-order sequence that maps p + "/" + rest to rest and
\* p to ".", and drops every other file; it is no longer than the input.
RelativizeStrictDescendant ==
    (pc = "map" /\ StrictDescendant) =>
        /\ relative_files = ExpectedRelative(changed_files, WorkspacePrefix)
        /\ Len(relative_files) <= Len(changed_files)

\* C4's case: of two files one is dropped and the other loses its prefix
OneDroppedOneStripped ==
    /\ pc = "map"
    /\ StrictDescendant
    /\ Len(changed_files) = 2
    /\ Len(relative_files) = 1
    /\ relative_files[1] # <<".">>
    /\ IsUnder(changed_files[2], WorkspacePrefix)

\* C5 as stated: no output path begins with "/" or contains the stripped prefix.
OutputNeverContainsPrefix ==
    (pc = "map" /\ \A f \in Range(changed_files) : IsRepoRelative(f)) =>
        \A i \in DOMAIN relative_files :
            /\ ~StartsWith(relative_files[i], <<"/">>)
            /\ StrictDescendant => ~Contains(relative_files[i], WorkspacePrefix)

\* C5 as amended: for changed paths as git lists them, every output path is
\* workspace-root-relative (an input path when the roots are equal; otherwise
\* "." for the prefix itself, or what follows the one leading prefix + "/" of
\* an input path) and never begins with "/"; nothing is put out when the
\* workspace is not inside the repository.
OutputWorkspaceRelative ==
    (pc = "map" /\ \A f \in Range(changed_files) : IsRepoRelative(f)) =>
        /\ \A i \in DOMAIN relative_files :
             LET o == relative_files[i] IN
             /\ ~StartsWith(o, <<"/">>)
             /\ StrictDescendant =>
                  \/ o = <<".">> /\ WorkspacePrefix \in Range(changed_files)
                  \/ (WorkspacePrefix \o <<"/">> \o o) \in Range(changed_files)
             /\ resolve(workspace_root) = resolve(git_root) => o \in Range(changed_files)
        /\ ~IsRelativeTo(resolve(workspace_root), resolve(git_root)) => relative_files = <<>>

\* C5's case: the path left after stripping still contains the prefix text
PrefixTextRemains ==
    /\ pc = "map"
    /\ StrictDescendant
    /\ \A f \in Range(changed_files) : IsRepoRelative(f)
    /\ \E i \in DOMAIN relative_files : Contains(relative_files[i], WorkspacePrefix)

(***************************************************************************)
(* Properties of get_changed_files, under SpecDiff.                        *)
(***************************************************************************)
\* C6 as stated: non-zero exit with "unknown revision" or "not a git
\* repository" in the diagnostic text raises the guiding UnresolvableRef
\* (ValueError); any other non-zero exit raises DiffFailed (RuntimeError)
\* carrying the raw diagnostic text; a list is returned only on exit 0; the
\* command runs exactly once.
DiffFailedCarriesRawText ==
    pc # "diff" =>
        /\ runs = 1
        /\ (completed.returncode # 0 /\ Diagnosed) =>
             (pc = "failed" /\ raised.type = "ValueError" /\ Guides(raised.message))
        /\ (completed.returncode # 0 /\ ~Diagnosed) =>
             /\ pc = "failed"
             /\ raised.type = "RuntimeError"
             /\ Contains(raised.message, completed.stderr)
        /\ (pc = "relativize") = (completed.returncode = 0)

\* C6 as amended: as stated, except that DiffFailed carries the diagnostic
\* text with its leading and trailing whitespace stripped, after the words
\* "git diff failed: ".
DiffOutcomeClassification ==
    pc # "diff" =>
        /\ runs = 1
        /\ (completed.returncode # 0 /\ Diagnosed) =>
             (pc = "failed" /\ raised.type = "ValueError" /\ Guides(raised.message))
        /\ (completed.returncode # 0 /\ ~Diagnosed) =>
             /\ pc = "failed"
             /\ raised.type = "RuntimeError"
             /\ raised.message =
                  <<"g", "i", "t", " ", "d", "i", "f", "f", " ", "f", "a", "i", "l", "e", "d", ":", " ">>
                  \o strip(completed.stderr)
        /\ (pc = "relativize") = (completed.returncode = 0)
        /\ completed.returncode = 0 => raised = NoException

\* C6's case: a failure that is not an unresolvable reference, its diagnostic
\* text ending in whitespace
DiffFailedStripped ==
    /\ pc = "failed"
    /\ raised.type = "RuntimeError"
    /\ completed.stderr # strip(completed.stderr)
    /\ strip(completed.stderr) # <<>>

\* the standard output is a listing as git writes it: every line ends with
\* "\n", and every line that is not empty names a path with a visible character
IsNameListing(out) ==
    /\ out = <<>> \/ out[Len(out)] = "\n"
    /\ \A i \in DOMAIN NonBlankLines(out) : strip(NonBlankLines(out)[i]) # <<>>

\* C9: on exit status 0 the result is exactly the non-blank lines of the
\* standard output, in order, each path character for character, leading and
\* trailing spaces of the first and last path included.
ReturnsPathsAsReported ==
    (pc = "relativize" /\ IsNameListing(completed.stdout)) =>
        changed_files = NonBlankLines(completed.stdout)

(***************************************************************************)
(* Property of the pipeline, under Spec.                                   *)
(***************************************************************************)
\* C10: with the workspace strictly below the repository root (prefix p),
\* a changed file outside p is dropped and never sets test_all: test_all needs
\* a file of the diff under p whose rest is a trigger, and under the default
\* triggers it needs p/pyproject.toml, p/uv.lock or a path under p/.github/.
OutsideFilesNeverTrigger ==
    (pc = "done" /\ StrictDescendant) =>
        LET p == WorkspacePrefix IN
        /\ \A o \in Range(relative_files) :
             \/ o = <<".">> /\ p \in Range(changed_files)
             \/ (p \o <<"/">> \o o) \in Range(changed_files)
        /\ test_all =>
             \E f \in Range(changed_files) :
                \/ f = p /\ IsTriggerFile(<<".">>)
                \/ IsUnder(f, p) /\ IsTriggerFile(RestOf(f, p))
        /\ (test_all /\ ~root_triggers.given /\ ~dir_triggers.given) =>
             \E f \in Range(changed_files) :
                \/ f = p \o <<"/">> \o PyprojectToml
                \/ f = p \o <<"/">> \o UvLock
                \/ StartsWith(f, p \o <<"/", ".", "g", "i", "t", "h", "u", "b", "/">>)

\* C10's case: repository-root trigger files in the diff, test_all stays false
RootLevelTriggersDropped ==
    /\ pc = "done"
    /\ StrictDescendant
    /\ ~root_triggers.given
    /\ ~dir_triggers.given
    /\ changed_files = <<PyprojectToml, GithubCi>>
    /\ relative_files = <<>>
    /\ ~test_all

====
